---------------------------- MODULE Spec2Model ----------------------------
(***************************************************************************)
(* A model of cucu's HTML reporter, src/cucu/reporter/html.py:             *)
(* process_tags() and generate().                                          *)
(*                                                                         *)
(* generate() is one sequential function.  It is cut into one action per   *)
(* loop body (or part of a loop body); pc names the position.  The parsed  *)
(* JSON tree is annotated in place, so `features` holds the records and    *)
(* `reported_features` holds references (indexes) into it.                 *)
(*                                                                         *)
(* Python dicts are records; a key that is absent is absent from DOMAIN.   *)
(* Strings that the code inspects (tags, log file names) are sequences of  *)
(* characters or of name parts; names used only as path keys are numbers.  *)
(* Timestamps are whole seconds: the ISO text of second t is the number t, *)
(* the datetime parsed from it is Datetime(t).                             *)
(*                                                                         *)
(* Preconditions of the modelled runs (failures outside them are fatal in  *)
(* the code and are not modelled): every timestamp parses, every Result    *)
(* has a duration, the results directory of every feature that is copied   *)
(* exists, the report directory is empty at the start, every JSON document *)
(* that parses is a list of Features, no sub-header handler is configured, *)
(* and the templates render.  Step fields that only the templates read     *)
(* (image, heading_level, text, table, error_message) are not carried, and *)
(* the progress characters printed under CUCU_SHOW_STATUS are left out.    *)
(* datetime.utcfromtimestamp of a negative number is the datetime that     *)
(* many seconds before the epoch, as on Linux.                             *)
(***************************************************************************)
EXTENDS Integers, Sequences, FiniteSets, TLC

VARIABLES
    \* the inputs of generate(results, basepath, only_failures) and CONFIG
    run_json_filepaths,   \* the files matching results/*run.json, in glob order
    results_dir,          \* <<feature name, scenario name>> -> its logs directory
    only_failures,
    tag_handlers,         \* CONFIG["__CUCU_HTML_REPORT_TAG_HANDLERS"], in order
    \* the locals of generate()
    pc,
    file_index,
    features,
    reported_features,
    feature_index,
    scenario_index,
    total_scenarios,
    total_scenarios_passed,
    total_scenarios_failed,
    total_scenarios_skipped,
    feature_started_at,
    feature_duration,
    scenario_started_at,
    scenario_duration,
    total_steps,
    log_files,
    log_files_bound,      \* FALSE until the first assignment to log_files
    grand_totals,
    page_index,
    \* what the run leaves outside its locals
    warnings,             \* logger.warn calls: the files reported unreadable
    copied,               \* trees copied into basepath
    written,              \* rendered console logs written under basepath
    read_attempts,        \* log files the run tried to read
    dirs,                 \* directories made by os.makedirs
    pages,                \* pages rendered and written
    error                 \* the exception that ended the run, if any

inputVars == <<run_json_filepaths, results_dir, only_failures, tag_handlers>>
featureLocals == <<total_scenarios, total_scenarios_passed, total_scenarios_failed,
                   total_scenarios_skipped, feature_started_at, feature_duration>>
scenarioLocals == <<scenario_started_at, scenario_duration, total_steps>>
logLocals == <<log_files, log_files_bound>>
outVars == <<warnings, copied, written, read_attempts, dirs, pages, error>>
vars == <<inputVars, pc, file_index, features, reported_features, feature_index,
          scenario_index, featureLocals, scenarioLocals, logLocals, grand_totals,
          page_index, outVars>>

-----------------------------------------------------------------------------
(* Bounds of the input families *)

MaxFiles == 2
MaxScenarios == 2
MaxSteps == 2
MaxTags == 2
MaxRules == 2

Timestamps == 1..2
Durations == {1, 2}

-----------------------------------------------------------------------------
(* Python values *)

None == [type |-> "NoneType"]
Datetime(t) == [type |-> "datetime", seconds |-> t]
Str(s) == [type |-> "str", text |-> s]

Has(d, k) == k \in DOMAIN d
Put(d, k, v) == [f \in DOMAIN d \cup {k} |-> IF f = k THEN v ELSE d[f]]

Range(s) == {s[i] : i \in 1..Len(s)}

RECURSIVE SeqsUpTo(_, _)
SeqsUpTo(S, n) ==
    IF n = 0 THEN {<<>>}
    ELSE LET shorter == SeqsUpTo(S, n - 1)
         IN  shorter \cup {Append(s, x) : s \in shorter, x \in S}

RECURSIVE SumSeq(_)
SumSeq(s) == IF s = <<>> THEN 0 ELSE Head(s) + SumSeq(Tail(s))

IsPrefix(p, s) == Len(p) <= Len(s) /\ SubSeq(s, 1, Len(p)) = p
Contains(s, part) == \E i \in 1..Len(s) : s[i] = part

\* sep.join(parts) on strings that are sequences of characters
RECURSIVE Join(_, _)
Join(sep, parts) ==
    IF parts = <<>> THEN <<>>
    ELSE IF Len(parts) = 1 THEN parts[1]
    ELSE parts[1] \o sep \o Join(sep, Tail(parts))

-----------------------------------------------------------------------------
(* process_tags *)

\* regex.match(tag): the patterns of the model are literal prefixes
Match(regex, tag) == IsPrefix(regex, tag)

\* handler(tag): a handler returns a fixed text or appends to the tag
Call(handler, tag) ==
    IF handler.op = "const" THEN handler.text ELSE tag \o handler.text

\* the loop over CONFIG["__CUCU_HTML_REPORT_TAG_HANDLERS"].items()
RECURSIVE ApplyHandlers(_, _)
ApplyHandlers(tag, handlers) ==
    IF handlers = <<>> THEN tag
    ELSE ApplyHandlers(IF Match(Head(handlers).regex, tag)
                       THEN Call(Head(handlers).handler, tag)
                       ELSE tag,
                       Tail(handlers))

PrepareTag(tag, handlers) == ApplyHandlers(<<"@">> \o tag, handlers)

process_tags(element, handlers) ==
    IF ~Has(element, "tags") THEN element
    ELSE Put(element, "tags",
             Join(<<" ">>, [i \in 1..Len(element.tags) |->
                               PrepareTag(element.tags[i], handlers)]))

-----------------------------------------------------------------------------
(* generate: the body of the loop over scenario["steps"] *)

fromisoformat(text) == Datetime(text)
utcfromtimestamp(seconds) == Datetime(seconds)

\* a bug that would also take the timestamp of a skipped step
IsTimedOrSkipped(step) ==
    Has(step, "result") /\ step.result.status \in {"failed", "passed", "skipped"}

\* `if step["result"]["status"] in ["failed", "passed"]:` under `if "result" in step:`
IsTimed(step) == Has(step, "result") /\ step.result.status \in {"failed", "passed"}

\* a bug that would add the duration under the status test, for timed steps only
AddDurationTimedOnly(duration, step) ==
    IF IsTimed(step) THEN duration + step.result.duration ELSE duration

\* `scenario_duration += step["result"]["duration"]`
AddDuration(duration, step) == duration + step.result.duration

\* one iteration; acc holds the loop's locals and the steps annotated so far
StepBody(step, acc) ==
    IF ~Has(step, "result") THEN
        [acc EXCEPT !.steps = Append(@, step), !.total_steps = @ + 1]
    ELSE IF IsTimed(step) THEN
        LET timestamp == fromisoformat(step.result.timestamp)
            first == acc.scenario_started_at = None
            started == IF first THEN timestamp ELSE acc.scenario_started_at
            result == Put(Put(step.result, "timestamp", timestamp), "time_offset",
                          utcfromtimestamp(timestamp.seconds - started.seconds))
        IN  [steps |-> Append(acc.steps, Put(step, "result", result)),
             total_steps |-> acc.total_steps + 1,
             scenario_started_at |-> started,
             scenario_duration |-> AddDuration(acc.scenario_duration, step)]
    ELSE
        [acc EXCEPT !.steps = Append(@, step), !.total_steps = @ + 1,
                    !.scenario_duration = AddDuration(@, step)]

RECURSIVE StepLoop(_, _)
StepLoop(steps, acc) ==
    IF steps = <<>> THEN acc ELSE StepLoop(Tail(steps), StepBody(Head(steps), acc))

StepLoopStart ==
    [steps |-> <<>>, total_steps |-> 0, scenario_started_at |-> None,
     scenario_duration |-> 0]

-----------------------------------------------------------------------------
(* The input families *)

Step == [name |-> 1]
StepWith(result) == [name |-> 1, result |-> result]

Result(status, timestamp, duration) ==
    [status |-> status, timestamp |-> timestamp, duration |-> duration]
StepStatuses == {"passed", "failed", "skipped", "untested"}

AllSteps ==
    {Step} \cup {StepWith(Result(st, t, d)) :
                    st \in StepStatuses, t \in Timestamps, d \in Durations}

ScenarioStatuses == {"passed", "failed", "skipped", "untested"}
FeatureStatuses == {"passed", "failed", "skipped", "untested"}

\* a scenario record with or without a status key
Scenario(name, status, steps) ==
    IF status = "absent" THEN [name |-> name, steps |-> steps]
    ELSE [name |-> name, status |-> status, steps |-> steps]

\* the sequences of length <= n whose i-th element is drawn from Of(i)
RECURSIVE Lists(_, _)
Lists(Of(_), n) ==
    IF n = 0 THEN {<<>>}
    ELSE LET shorter == Lists(Of, n - 1)
         IN  shorter \cup {Append(s, x) : s \in {t \in shorter : Len(t) = n - 1},
                                          x \in Of(n)}

OkFile(body) == [kind |-> "ok", body |-> body]
BadFiles == {[kind |-> k, body |-> <<>>] : k \in {"open_error", "read_error", "malformed"}}

AllFeatures(files) ==
    UNION {Range(files[i].body) : i \in 1..Len(files)}
ScenarioPaths(files) ==
    UNION {{<<f.name, f.elements[j].name>> : j \in 1..Len(f.elements)} :
              f \in {g \in AllFeatures(files) : Has(g, "elements")}}

NoDir == [exists |-> FALSE, files |-> <<>>]
Dir(listing) == [exists |-> TRUE, files |-> listing]

ConsoleLog == <<"browser", ".console.", "log">>
PlainLog == <<"cucu", ".debug.", "log">>

\* files and features: up to MaxFiles files, each unreadable, empty, holding one
\* feature of any status with at most one short scenario, or holding two features
WideScenarios ==
    {Scenario(1, "passed", <<StepWith(Result("passed", 1, 1))>>),
     Scenario(1, "failed", <<StepWith(Result("failed", 1, 2))>>),
     Scenario(1, "skipped", <<StepWith(Result("skipped", 1, 1))>>)}
WideFeatures(name) ==
    {[name |-> name, status |-> st] : st \in FeatureStatuses}
    \cup {[name |-> name, status |-> st, elements |-> el] :
            st \in FeatureStatuses, el \in {<<>>} \cup {<<sc>> : sc \in WideScenarios}}
WidePair(i) ==
    <<[name |-> 2 * i - 1, status |-> "failed",
       elements |-> <<Scenario(1, "failed", <<StepWith(Result("failed", 1, 2))>>)>>],
      [name |-> 2 * i, status |-> "passed",
       elements |-> <<Scenario(1, "passed", <<StepWith(Result("passed", 2, 1))>>)>>]>>
WideFile(i) ==
    BadFiles \cup {OkFile(<<>>), OkFile(WidePair(i))}
    \cup {OkFile(<<f>>) : f \in WideFeatures(2 * i - 1)}
WideInputs == Lists(WideFile, MaxFiles)

\* steps: one scenario with up to MaxSteps steps of every kind
StepsInputs ==
    {<<OkFile(<<[name |-> 1, status |-> "passed",
                 elements |-> <<Scenario(1, "passed", steps)>>]>>)>> :
        steps \in SeqsUpTo(AllSteps, MaxSteps)}

\* scenarios: one feature with up to MaxScenarios scenarios of every status
RollupSteps ==
    {<<>>,
     <<StepWith(Result("skipped", 1, 1))>>,
     <<StepWith(Result("passed", 1, 2))>>}
RollupScenario(j) ==
    {Scenario(j, st, steps) : st \in ScenarioStatuses \cup {"absent"}, steps \in RollupSteps}
RollupInputs ==
    {<<OkFile(<<[name |-> 1, status |-> "failed", elements |-> el]>>)>> :
        el \in Lists(RollupScenario, MaxScenarios)}

\* logs: one feature with up to MaxScenarios scenarios, timed or not, each with
\* or without a logs directory
LogsSteps ==
    {<<StepWith(Result("skipped", 1, 1))>>}
    \cup {<<StepWith(Result("passed", t, 1))>> :
             t \in Timestamps}
LogsScenario(j) == {Scenario(j, "passed", steps) : steps \in LogsSteps}
LogsInputs ==
    {<<OkFile(<<[name |-> 1, status |-> "passed", elements |-> el]>>)>> :
        el \in Lists(LogsScenario, MaxScenarios)}
LogDirs == {NoDir, Dir(<<>>), Dir(<<PlainLog>>), Dir(<<ConsoleLog>>),
            Dir(<<PlainLog, ConsoleLog>>)}

\* tags: one feature and one scenario with tags, under every short rule list
RawTags == {<<"a">>, <<"b">>}
TagLists == SeqsUpTo(RawTags, MaxTags)
Regexes == {<<"@">>, <<"@", "a">>, <<"@", "b">>}
Handlers == {[op |-> "const", text |-> <<"@", "b">>], [op |-> "append", text |-> <<"!">>]}
Rules == {[regex |-> r, handler |-> h] : r \in Regexes, h \in Handlers}
\* the rules are the items of a dict: no regex is a key twice
RuleLists ==
    {rs \in SeqsUpTo(Rules, MaxRules) :
        \A i, j \in 1..Len(rs) : i # j => rs[i].regex # rs[j].regex}
TagsFeatures ==
    {[name |-> 1, status |-> "skipped"]}
    \cup {[name |-> 1, status |-> "skipped", tags |-> ts] : ts \in TagLists}
    \cup {[name |-> 1, status |-> "skipped", tags |-> ts,
           elements |-> <<[name |-> 1, status |-> "skipped", steps |-> <<>>,
                           tags |-> <<<<"a">>>>]>>] : ts \in TagLists}
TagsInputs == {<<OkFile(<<f>>)>> : f \in TagsFeatures}

-----------------------------------------------------------------------------
(* generate *)

InitLocals ==
    /\ pc = "load"
    /\ file_index = 1
    /\ features = <<>>
    /\ reported_features = <<>>
    /\ feature_index = 0
    /\ scenario_index = 0
    /\ total_scenarios = 0
    /\ total_scenarios_passed = 0
    /\ total_scenarios_failed = 0
    /\ total_scenarios_skipped = 0
    /\ feature_started_at = None
    /\ feature_duration = 0
    /\ scenario_started_at = None
    /\ scenario_duration = 0
    /\ total_steps = 0
    /\ log_files = <<>>
    /\ log_files_bound = FALSE
    /\ grand_totals = None
    /\ page_index = 0
    /\ warnings = <<>>
    /\ copied = {}
    /\ written = {}
    /\ read_attempts = {}
    /\ dirs = {}
    /\ pages = {}
    /\ error = "none"

InitInputs(files, logdirs, flags, rulelists) ==
    /\ run_json_filepaths \in files
    /\ results_dir \in [ScenarioPaths(run_json_filepaths) -> logdirs]
    /\ only_failures \in flags
    /\ tag_handlers \in rulelists

Init ==
    /\ \/ InitInputs(WideInputs, {Dir(<<ConsoleLog>>)}, BOOLEAN, {<<>>})
       \/ InitInputs(StepsInputs, {Dir(<<>>)}, {FALSE}, {<<>>})
       \/ InitInputs(RollupInputs, {Dir(<<>>)}, {FALSE}, {<<>>})
       \/ InitInputs(LogsInputs, LogDirs, {FALSE}, {<<>>})
       \/ InitInputs(TagsInputs, {Dir(<<>>)}, {FALSE}, RuleLists)
    /\ InitLocals

\* `with open(run_json_filepath, "rb")` raises: the with statement is outside the try
OpenRaises ==
    /\ pc = "load"
    /\ file_index <= Len(run_json_filepaths)
    /\ run_json_filepaths[file_index].kind = "open_error"
    /\ pc' = "aborted"
    /\ error' = "OSError"
    /\ UNCHANGED <<inputVars, file_index, features, reported_features, feature_index,
                   scenario_index, featureLocals, scenarioLocals, logLocals,
                   grand_totals, page_index, warnings, copied, written,
                   read_attempts, dirs, pages>>

\* one iteration of the loop over run_json_filepaths whose open succeeds
LoadFile ==
    /\ pc = "load"
    /\ file_index <= Len(run_json_filepaths)
    /\ run_json_filepaths[file_index].kind # "open_error"
    /\ IF run_json_filepaths[file_index].kind = "ok"
       THEN /\ features' = features \o run_json_filepaths[file_index].body
            /\ warnings' = warnings
       ELSE /\ features' = features
            /\ warnings' = Append(warnings, file_index)
    /\ file_index' = file_index + 1
    /\ UNCHANGED <<inputVars, pc, reported_features, feature_index, scenario_index,
                   featureLocals, scenarioLocals, logLocals, grand_totals,
                   page_index, copied, written, read_attempts, dirs, pages, error>>

External == <<"external">>
FeatureTree(name) == <<"feature", name>>

CopyExternal ==
    /\ pc = "load"
    /\ file_index > Len(run_json_filepaths)
    /\ copied' = copied \cup {External}
    /\ pc' = "feature"
    /\ feature_index' = 1
    /\ UNCHANGED <<inputVars, file_index, features, reported_features, scenario_index,
                   featureLocals, scenarioLocals, logLocals, grand_totals,
                   page_index, warnings, written, read_attempts, dirs, pages, error>>

\* the local `scenarios` of both loops over the features
Scenarios(feature) ==
    IF feature.status # "untested" /\ Has(feature, "elements")
    THEN feature.elements ELSE <<>>

\* a bug that would leave the filter out
DroppedNever(feature) == FALSE

\* a bug that would drop only the Features that passed
DroppedOnlyPassed(feature) == only_failures /\ feature.status = "passed"

\* `if only_failures and feature["status"] != "failed": continue`
Dropped(feature) == only_failures /\ feature.status # "failed"

SkipFeature ==
    /\ pc = "feature"
    /\ feature_index <= Len(features)
    /\ Dropped(features[feature_index])
    /\ feature_index' = feature_index + 1
    /\ UNCHANGED <<inputVars, pc, file_index, features, reported_features,
                   scenario_index, featureLocals, scenarioLocals, logLocals,
                   grand_totals, page_index, outVars>>

BeginFeature ==
    /\ pc = "feature"
    /\ feature_index <= Len(features)
    /\ ~Dropped(features[feature_index])
    /\ feature_duration' = 0
    /\ total_scenarios' = 0
    /\ total_scenarios_passed' = 0
    /\ total_scenarios_failed' = 0
    /\ total_scenarios_skipped' = 0
    /\ feature_started_at' = None
    /\ reported_features' = Append(reported_features, feature_index)
    /\ features' = [features EXCEPT
                       ![feature_index] = process_tags(@, tag_handlers)]
    /\ copied' = IF features[feature_index].status \notin {"skipped", "untested"}
                 THEN copied \cup {FeatureTree(features[feature_index].name)}
                 ELSE copied
    /\ scenario_index' = 1
    /\ pc' = "scenario"
    /\ UNCHANGED <<inputVars, file_index, feature_index, scenarioLocals, logLocals,
                   grand_totals, page_index, warnings, written, read_attempts,
                   dirs, pages, error>>

feature == features[feature_index]
scenario == Scenarios(feature)[scenario_index]

\* `scenario[key] = ...`: the scenario is an element of feature["elements"]
SetScenario(sc) ==
    [features EXCEPT ![feature_index] =
        Put(@, "elements", [@.elements EXCEPT ![scenario_index] = sc])]

\* the scenario loop up to the end of the loop over its steps
ScenarioSteps ==
    /\ pc = "scenario"
    /\ scenario_index <= Len(Scenarios(feature))
    /\ LET tagged == Put(process_tags(scenario, tag_handlers), "sub_headers", <<>>)
           loop == StepLoop(scenario.steps, StepLoopStart)
           stepped == Put(tagged, "steps", loop.steps)
       IN  /\ total_scenarios' = total_scenarios + 1
           /\ IF ~Has(scenario, "status") THEN
                  /\ total_scenarios_skipped' = total_scenarios_skipped + 1
                  /\ UNCHANGED <<total_scenarios_passed, total_scenarios_failed>>
              ELSE IF scenario.status = "passed" THEN
                  /\ total_scenarios_passed' = total_scenarios_passed + 1
                  /\ UNCHANGED <<total_scenarios_failed, total_scenarios_skipped>>
              ELSE IF scenario.status = "failed" THEN
                  /\ total_scenarios_failed' = total_scenarios_failed + 1
                  /\ UNCHANGED <<total_scenarios_passed, total_scenarios_skipped>>
              ELSE IF scenario.status = "skipped" THEN
                  /\ total_scenarios_skipped' = total_scenarios_skipped + 1
                  /\ UNCHANGED <<total_scenarios_passed, total_scenarios_failed>>
              ELSE UNCHANGED <<total_scenarios_passed, total_scenarios_failed,
                               total_scenarios_skipped>>
           /\ scenario_started_at' = loop.scenario_started_at
           /\ scenario_duration' = loop.scenario_duration
           /\ total_steps' = loop.total_steps
           /\ features' = SetScenario(
                  IF loop.scenario_started_at = None THEN stepped
                  ELSE Put(stepped, "started_at", loop.scenario_started_at))
    /\ pc' = "logs"
    /\ UNCHANGED <<inputVars, file_index, reported_features, feature_index,
                   scenario_index, feature_started_at, feature_duration, logLocals,
                   grand_totals, page_index, outVars>>

\* what os.path.exists and the reads see under basepath: the trees copied from
\* the results directory and what the run wrote
scenario_path == <<feature.name, scenario.name>>
LogsDirExists == FeatureTree(feature.name) \in copied /\ results_dir[scenario_path].exists
LogFileExists(name) ==
    \/ LogsDirExists /\ name \in Range(results_dir[scenario_path].files)
    \/ <<feature.name, scenario.name, name>> \in written

\* one entry of scenario["logs"]
LogEntry(name) ==
    LET log_filepath == <<"logs/">> \o name
    IN  [filepath |-> IF Contains(log_filepath, ".console.")
                      THEN log_filepath \o <<".html">> ELSE log_filepath,
         name |-> name]

\* `if os.path.exists(logs_dir):` taken
ListLogs ==
    /\ pc = "logs"
    /\ LogsDirExists
    /\ LET listing == results_dir[scenario_path].files
           entries == [i \in 1..Len(listing) |-> LogEntry(listing[i])]
       IN  /\ log_files' = entries
           /\ log_files_bound' = TRUE
           /\ features' = SetScenario(Put(scenario, "logs", entries))
    /\ pc' = "timing"
    /\ UNCHANGED <<inputVars, file_index, reported_features, feature_index,
                   scenario_index, featureLocals, scenarioLocals, grand_totals,
                   page_index, outVars>>

\* `if os.path.exists(logs_dir):` not taken: log_files keeps what it held
NoLogsDir ==
    /\ pc = "logs"
    /\ ~LogsDirExists
    /\ pc' = "timing"
    /\ UNCHANGED <<inputVars, file_index, features, reported_features, feature_index,
                   scenario_index, featureLocals, scenarioLocals, logLocals,
                   grand_totals, page_index, outVars>>

\* `if scenario_started_at == None:` taken, to the end of the scenario loop's body
ScenarioUntimed ==
    /\ pc = "timing"
    /\ scenario_started_at = None
    /\ features' = SetScenario(
           Put(Put(Put(scenario, "total_steps", total_steps),
                   "started_at", Str("")),
               "duration", scenario_duration))
    /\ feature_duration' = feature_duration + scenario_duration
    /\ scenario_index' = scenario_index + 1
    /\ pc' = "scenario"
    /\ UNCHANGED <<inputVars, file_index, reported_features, feature_index,
                   total_scenarios, total_scenarios_passed, total_scenarios_failed,
                   total_scenarios_skipped, feature_started_at, scenarioLocals,
                   logLocals, grand_totals, page_index, outVars>>

\* the loop over the console entries of log_files: each is read, rendered and
\* written beside its source until a read fails
RECURSIVE RenderLoop(_, _)
RenderLoop(entries, acc) ==
    IF entries = <<>> \/ acc.failed THEN acc
    ELSE LET name == Head(entries).name
             path == <<feature.name, scenario.name, name>>
             sibling == <<feature.name, scenario.name, name \o <<".html">>>>
         IN  RenderLoop(Tail(entries),
                 IF LogFileExists(name)
                 THEN [written |-> acc.written \cup {sibling},
                       read_attempts |-> acc.read_attempts \cup {path},
                       failed |-> FALSE]
                 ELSE [written |-> acc.written,
                       read_attempts |-> acc.read_attempts \cup {path},
                       failed |-> TRUE])

IsConsoleEntry(x) == Contains(x.name, ".console.")
Rendering ==
    RenderLoop(SelectSeq(log_files, IsConsoleEntry),
               [written |-> written, read_attempts |-> read_attempts, failed |-> FALSE])

\* lines 231-241 of the else branch: total_steps, the feature anchor, time_offset
TimedScenario ==
    LET anchor == IF feature_started_at = None THEN scenario_started_at
                  ELSE feature_started_at
    IN  Put(Put(scenario, "total_steps", total_steps), "time_offset",
            utcfromtimestamp(scenario_started_at.seconds - anchor.seconds))

AnchorFeature(fs) ==
    IF feature_started_at = None
    THEN [fs EXCEPT ![feature_index] = Put(@, "started_at", scenario_started_at)]
    ELSE fs

\* the else branch runs through, to the end of the scenario loop's body
ScenarioTimed ==
    /\ pc = "timing"
    /\ scenario_started_at # None
    /\ log_files_bound
    /\ ~Rendering.failed
    /\ feature_started_at' =
           IF feature_started_at = None THEN scenario_started_at ELSE feature_started_at
    /\ features' = AnchorFeature(SetScenario(Put(TimedScenario, "duration", scenario_duration)))
    /\ written' = Rendering.written
    /\ read_attempts' = Rendering.read_attempts
    /\ feature_duration' = feature_duration + scenario_duration
    /\ scenario_index' = scenario_index + 1
    /\ pc' = "scenario"
    /\ UNCHANGED <<inputVars, file_index, reported_features, feature_index,
                   total_scenarios, total_scenarios_passed, total_scenarios_failed,
                   total_scenarios_skipped, scenarioLocals, logLocals, grand_totals,
                   page_index, warnings, copied, dirs, pages, error>>

\* the else branch raises: log_files was never assigned (UnboundLocalError), or
\* it names a file that is not in this scenario's logs directory
ScenarioTimedRaises ==
    /\ pc = "timing"
    /\ scenario_started_at # None
    /\ ~log_files_bound \/ Rendering.failed
    /\ feature_started_at' =
           IF feature_started_at = None THEN scenario_started_at ELSE feature_started_at
    /\ features' = AnchorFeature(SetScenario(TimedScenario))
    /\ IF log_files_bound
       THEN /\ written' = Rendering.written
            /\ read_attempts' = Rendering.read_attempts
            /\ error' = "FileNotFoundError"
       ELSE /\ UNCHANGED <<written, read_attempts>>
            /\ error' = "UnboundLocalError"
    /\ pc' = "aborted"
    /\ UNCHANGED <<inputVars, file_index, reported_features, feature_index,
                   scenario_index, total_scenarios, total_scenarios_passed,
                   total_scenarios_failed, total_scenarios_skipped, feature_duration,
                   scenarioLocals, logLocals, grand_totals, page_index, warnings,
                   copied, dirs, pages>>

\* after the scenario loop: the feature's rollups
EndFeature ==
    /\ pc = "scenario"
    /\ scenario_index > Len(Scenarios(feature))
    /\ LET scenarios == Scenarios(feature)
           anchored == IF feature_started_at = None
                       THEN Put(feature, "started_at", Str("")) ELSE feature
           rolled ==
               [k \in {"total_steps", "duration", "total_scenarios",
                       "total_scenarios_passed", "total_scenarios_failed",
                       "total_scenarios_skipped"} |->
                   CASE k = "total_steps" ->
                            SumSeq([i \in 1..Len(scenarios) |-> scenarios[i].total_steps])
                     [] k = "duration" ->
                            SumSeq([i \in 1..Len(scenarios) |-> scenarios[i].duration])
                     [] k = "total_scenarios" -> total_scenarios
                     [] k = "total_scenarios_passed" -> total_scenarios_passed
                     [] k = "total_scenarios_failed" -> total_scenarios_failed
                     [] k = "total_scenarios_skipped" -> total_scenarios_skipped]
       IN  features' = [features EXCEPT ![feature_index] =
                           [f \in DOMAIN anchored \cup DOMAIN rolled |->
                               IF f \in DOMAIN rolled THEN rolled[f] ELSE anchored[f]]]
    /\ feature_index' = feature_index + 1
    /\ pc' = "feature"
    /\ UNCHANGED <<inputVars, file_index, reported_features, scenario_index,
                   featureLocals, scenarioLocals, logLocals, grand_totals,
                   page_index, outVars>>

keys == {"total_scenarios", "total_scenarios_passed", "total_scenarios_failed",
         "total_scenarios_skipped", "duration"}

Reported(i) == features[reported_features[i]]
ReportedNames == [i \in 1..Len(reported_features) |-> Reported(i).name]

\* after the feature loop: grand_totals, index.html and flat.html
GrandTotals ==
    /\ pc = "feature"
    /\ feature_index > Len(features)
    /\ grand_totals' =
           [k \in keys |->
               SumSeq([i \in 1..Len(reported_features) |-> Reported(i)[k]])]
    /\ pages' = pages \cup {[page |-> "index.html", features |-> ReportedNames],
                            [page |-> "flat.html", features |-> ReportedNames]}
    /\ page_index' = 1
    /\ pc' = "pages"
    /\ UNCHANGED <<inputVars, file_index, features, reported_features, feature_index,
                   scenario_index, featureLocals, scenarioLocals, logLocals,
                   warnings, copied, written, read_attempts, dirs, error>>

\* one iteration of the last loop: the feature's directory and page, and the
\* directory and page of each of its scenarios
WriteFeaturePages ==
    /\ pc = "pages"
    /\ page_index <= Len(reported_features)
    /\ LET f == Reported(page_index)
           scenarios == Scenarios(f)
       IN  /\ dirs' = dirs \cup {<<f.name>>}
                           \cup {<<f.name, scenarios[i].name>> : i \in 1..Len(scenarios)}
           /\ pages' = pages
                  \cup {[page |-> "feature.html", feature |-> f.name]}
                  \cup {[page |-> "scenario.html", feature |-> f.name,
                         scenario |-> scenarios[i].name] : i \in 1..Len(scenarios)}
    /\ page_index' = page_index + 1
    /\ UNCHANGED <<inputVars, pc, file_index, features, reported_features,
                   feature_index, scenario_index, featureLocals, scenarioLocals,
                   logLocals, grand_totals, warnings, copied, written,
                   read_attempts, error>>

Return ==
    /\ pc = "pages"
    /\ page_index > Len(reported_features)
    /\ pc' = "done"
    /\ UNCHANGED <<inputVars, file_index, features, reported_features, feature_index,
                   scenario_index, featureLocals, scenarioLocals, logLocals,
                   grand_totals, page_index, outVars>>

Next ==
    \/ OpenRaises
    \/ LoadFile
    \/ CopyExternal
    \/ SkipFeature
    \/ BeginFeature
    \/ ScenarioSteps
    \/ ListLogs
    \/ NoLogsDir
    \/ ScenarioUntimed
    \/ ScenarioTimed
    \/ ScenarioTimedRaises
    \/ EndFeature
    \/ GrandTotals
    \/ WriteFeaturePages
    \/ Return

Spec == Init /\ [][Next]_vars

-----------------------------------------------------------------------------
(* The properties *)

\* the Feature sequences of the first n files that parse, concatenated
RECURSIVE Merged(_)
Merged(n) ==
    IF n = 0 THEN <<>>
    ELSE Merged(n - 1) \o (IF run_json_filepaths[n].kind = "ok"
                           THEN run_json_filepaths[n].body ELSE <<>>)

Input(i) == Merged(Len(run_json_filepaths))[i]
Processed == Range(reported_features)
Retained(f) == ~only_failures \/ f.status = "failed"
FeatureIndexes == 1..Len(features)
ScenarioIndexes(f) == 1..Len(Scenarios(f))

Totals == {"total_scenarios", "total_scenarios_passed", "total_scenarios_failed",
           "total_scenarios_skipped", "duration"}

RECURSIVE RetainedSum(_, _)
RetainedSum(k, n) ==
    IF n = 0 THEN 0
    ELSE RetainedSum(k, n - 1) + (IF Retained(features[n]) THEN features[n][k] ELSE 0)

\* C1: once generate() has computed them, each grand total equals the sum of
\* the same-named field over the Features that pass the only_failures filter,
\* and a Feature the filter drops carries none of these fields.
C1_GrandTotals ==
    pc \in {"pages", "done"} =>
        /\ \A k \in Totals : grand_totals[k] = RetainedSum(k, Len(features))
        /\ \A i \in FeatureIndexes :
               ~Retained(features[i]) => DOMAIN features[i] \cap Totals = {}

C1_Witness ==
    /\ pc = "done"
    /\ only_failures
    /\ grand_totals.total_scenarios >= 1
    /\ grand_totals.duration >= 1
    /\ \E i \in FeatureIndexes :
           /\ features[i].status = "passed"
           /\ Scenarios(features[i]) # <<>>

\* C2: in every Feature that has its rollups, total_scenarios is the sum of the
\* passed, failed and skipped counts: every processed Scenario is in one bucket.
C2_BucketsPartition ==
    \A i \in FeatureIndexes :
        Has(features[i], "total_scenarios") =>
            features[i].total_scenarios =
                features[i].total_scenarios_passed
                + features[i].total_scenarios_failed
                + features[i].total_scenarios_skipped

RECURSIVE FirstMatch(_, _)
FirstMatch(tag, handlers) ==
    IF handlers = <<>> THEN tag
    ELSE IF Match(Head(handlers).regex, tag) THEN Call(Head(handlers).handler, tag)
    ELSE FirstMatch(tag, Tail(handlers))

FirstMatchTags(tags) ==
    Join(<<" ">>, [i \in 1..Len(tags) |-> FirstMatch(<<"@">> \o tags[i], tag_handlers)])

\* C3: the tags of every processed Feature and Scenario are, tag by tag, the
\* transform of the first rule that matches '@' + tag, applied once, or
\* '@' + tag when no rule matches.
C3_FirstMatchOnly ==
    \A i \in Processed :
        /\ Has(Input(i), "tags") => features[i].tags = FirstMatchTags(Input(i).tags)
        /\ \A j \in ScenarioIndexes(features[i]) :
               Has(Scenarios(features[i])[j], "sub_headers")
               /\ Has(Scenarios(Input(i))[j], "tags")
               => Scenarios(features[i])[j].tags
                      = FirstMatchTags(Scenarios(Input(i))[j].tags)

\* C4: every Step time_offset and every Scenario time_offset is non-negative.
C4_OffsetsNonNegative ==
    \A i \in FeatureIndexes : \A j \in ScenarioIndexes(features[i]) :
        LET sc == Scenarios(features[i])[j]
        IN  /\ Has(sc, "time_offset") => sc.time_offset.seconds >= 0
            /\ \A k \in 1..Len(sc.steps) :
                   Has(sc.steps[k], "result") /\ Has(sc.steps[k].result, "time_offset")
                   => sc.steps[k].result.time_offset.seconds >= 0

NoTimedStep(steps) ==
    \A k \in 1..Len(steps) :
        ~(Has(steps[k], "result") /\ steps[k].result.status \in {"passed", "failed"})

FailedFiles(n) == {i \in 1..n : run_json_filepaths[i].kind # "ok"}

\* C6: a run-result file that fails to load (malformed JSON, an error on open
\* or on read) does not end the run: after each file the merge holds exactly
\* the Features of the files before it that parsed, and the run goes on.
C6_LoadFailureSkipped ==
    /\ pc = "load" => features = Merged(file_index - 1)
    /\ pc # "load" /\ FailedFiles(Len(run_json_filepaths)) # {} =>
           /\ error # "OSError"
           /\ Len(features) = Len(Merged(Len(run_json_filepaths)))

ConsoleSibling(name) == name \o <<".html">>

\* C7: at the end of a successful run, for every processed Scenario whose logs
\* directory exists, every console log in it has its rendered sibling written
\* and its entry in scenario["logs"] points at that sibling.
C7_ConsoleLogsRendered ==
    pc = "done" =>
        \A i \in Processed : \A j \in ScenarioIndexes(features[i]) :
            LET f == features[i]
                sc == Scenarios(f)[j]
                dir == results_dir[<<f.name, sc.name>>]
            IN  FeatureTree(f.name) \in copied /\ dir.exists =>
                    \A name \in Range(dir.files) :
                        Contains(name, ".console.") =>
                            /\ <<f.name, sc.name, ConsoleSibling(name)>> \in written
                            /\ Has(sc, "logs")
                            /\ \E e \in Range(sc.logs) :
                                   /\ e.name = name
                                   /\ e.filepath = <<"logs/">> \o ConsoleSibling(name)

FeatureNamed(name) == {i \in FeatureIndexes : features[i].name = name}

\* C8: with only_failures set, a Feature whose status is not "failed" is left
\* as it was parsed, is not reported, and no tree, directory, rendered log or
\* page of the output is its own; every tree, directory and page is that of a
\* Feature with status "failed".
C8_DroppedUntouched ==
    only_failures =>
        /\ \A i \in FeatureIndexes :
               features[i].status # "failed" =>
                   /\ features[i] = Input(i)
                   /\ i \notin Range(reported_features)
                   /\ FeatureTree(features[i].name) \notin copied
                   /\ \A d \in dirs : d[1] # features[i].name
                   /\ \A w \in written : w[1] # features[i].name
                   /\ \A p \in pages :
                          /\ Has(p, "feature") => p.feature # features[i].name
                          /\ Has(p, "features") => features[i].name \notin Range(p.features)
        /\ \A t \in copied \ {External} :
               \E i \in FeatureNamed(t[2]) : features[i].status = "failed"
        /\ \A d \in dirs : \E i \in FeatureNamed(d[1]) : features[i].status = "failed"
        /\ \A p \in pages :
               Has(p, "feature") =>
                   \E i \in FeatureNamed(p.feature) : features[i].status = "failed"

C8_Witness ==
    /\ pc = "done"
    /\ only_failures
    /\ \E i \in FeatureIndexes :
           /\ features[i].status = "passed"
           /\ Scenarios(features[i]) # <<>>
    /\ \E i \in FeatureIndexes :
           /\ features[i].status = "failed"
           /\ [page |-> "scenario.html", feature |-> features[i].name, scenario |-> 1]
                  \in pages

RECURSIVE ResultDurations(_)
ResultDurations(steps) ==
    IF steps = <<>> THEN 0
    ELSE (IF Has(Head(steps), "result") THEN Head(steps).result.duration ELSE 0)
         + ResultDurations(Tail(steps))

\* C9: the duration of every Feature that has one is the sum of the durations
\* of its Scenarios, and the duration of each of these is the sum of the Result
\* durations of all its Steps that have a Result, whatever the Result's status.
C9_Durations ==
    \A i \in FeatureIndexes :
        Has(features[i], "duration") =>
            LET scs == Scenarios(features[i])
            IN  /\ features[i].duration = SumSeq([j \in 1..Len(scs) |-> scs[j].duration])
                /\ \A j \in 1..Len(scs) :
                       scs[j].duration = ResultDurations(scs[j].steps)

C9_Witness ==
    /\ pc = "done"
    /\ \E i \in FeatureIndexes :
           /\ Has(features[i], "duration")
           /\ features[i].duration >= 3
           /\ \E j \in ScenarioIndexes(features[i]) :
                  LET steps == Scenarios(features[i])[j].steps
                  IN  /\ Len(steps) = 2
                      /\ steps[1].result.status = "untested"
                      /\ steps[2].result.status = "passed"

\* C10: every log file the run tries to read is a console log listed in the
\* logs directory of the Scenario it is read for, and a Scenario without a logs
\* directory gets no "logs" key.
C10_OwnLogsOnly ==
    /\ \A p \in read_attempts :
           LET dir == results_dir[<<p[1], p[2]>>]
           IN  /\ FeatureTree(p[1]) \in copied
               /\ dir.exists
               /\ p[3] \in Range(dir.files)
               /\ Contains(p[3], ".console.")
    /\ \A i \in FeatureIndexes : \A j \in ScenarioIndexes(features[i]) :
           LET sc == Scenarios(features[i])[j]
           IN  Has(sc, "logs") =>
                   /\ FeatureTree(features[i].name) \in copied
                   /\ results_dir[<<features[i].name, sc.name>>].exists

=============================================================================
